---- MODULE Spec2Model ----
(***************************************************************************)
(* The voice assistant of main_window.py: VoiceAssistantApp (the handlers  *)
(* of the GUI thread), VoiceEngine (listen and speak worker threads) and   *)
(* AIAssistant (completion worker threads and the conversation history).   *)
(*                                                                         *)
(* Every worker is a Python thread.  Its callback runs on the worker       *)
(* thread itself, inside the worker's try block, before the worker's       *)
(* finally clause resets the busy flag.  A worker is a record of the       *)
(* bag threads; its pc is the statement it is about to execute.  Of the    *)
(* widgets, the status label and the animated circle are modelled; the     *)
(* status bar and the conversation display are write-only text and are     *)
(* left out.                                                               *)
(***************************************************************************)
EXTENDS Integers, Sequences, FiniteSets, Bags, TLC

VARIABLES
    status_label,          \* VoiceAssistantApp.status_label text
    circle,                \* AnimatedCircle flags set by set_state
    is_listening,          \* VoiceEngine.is_listening
    is_speaking,           \* VoiceEngine.is_speaking
    current_voice_mode,    \* VoiceEngine.current_voice_mode
    tts,                   \* properties of VoiceEngine.tts_engine
    conversation_history,  \* AIAssistant.conversation_history
    is_processing,         \* AIAssistant.is_processing
    requests,              \* bag of completion requests in flight
    threads,               \* bag of worker threads
    program,               \* which program runs: the application or a demo
    ui_thread,             \* demos: what the UI thread is doing
    real_ai,               \* demos: the real assistant has been enabled
    tts_available,         \* demos: TTS_AVAILABLE, pyttsx3 could be imported
    index,                 \* DemoAI.index, DemoAIAssistant.response_index
    real_history,          \* RealAI.history, RealAIAssistant.conversation_history
    workers,               \* demos: bag of get_response calls in progress
    calls,                 \* demos: get_response calls made so far
    conversation,          \* demos: the lines of the conversation display
    spoken,                \* demos: the text last given to the voice engine
    angle                  \* AnimatedCircle.angle

vars == <<status_label, circle, is_listening, is_speaking,
          current_voice_mode, tts, conversation_history, is_processing,
          requests, threads, program, ui_thread, real_ai, tts_available,
          index, real_history, workers, calls, conversation, spoken,
          angle>>

uiVars == <<status_label, circle>>
engineVars == <<is_listening, is_speaking, current_voice_mode, tts>>
aiVars == <<conversation_history, is_processing, requests>>
\* the state of the application, and that of the demo programs
animVars == <<angle>>
appVars == <<uiVars, engineVars, aiVars, threads, animVars>>
demoVars == <<program, ui_thread, real_ai, tts_available, index, real_history,
              workers, calls, conversation, spoken>>

----------------------------------------------------------------------------
(* Bounds of the model *)

\* circle clicks that pass the busy check
MaxClicks == 2
\* presses of the Test TTS button
MaxTests == 1
\* get_response calls of the assistant-only specification
MaxCalls == 12
\* interaction cycles of the voice-mode specification
MaxVoiceCycles == 1
\* voices installed in the TTS driver
NumVoices == 2

----------------------------------------------------------------------------
(* Values *)

\* Python None
None == "<None>"
\* a local variable that has no value yet
Unbound == "<unbound>"

\* truth value of a str-or-None in an if statement
Truthy(x) == x # None /\ x # ""

SystemPrompt == "You are ARIA"

\* what the speech service can transcribe
Texts == {"", "hello"}

\* the n-th utterance given to get_response by a direct caller
Utterance(n) == "q" \o ToString(n)

\* what the completion service can answer to an utterance, after strip()
Replies(user_input) ==
    IF user_input \in Texts THEN {"", "hi there"} ELSE {"re " \o user_input}

VOICE_MODES ==
    [Male |-> [rate |-> 200], Female |-> [rate |-> 180], Alien |-> [rate |-> 150]]

VoiceSelectorItems == {"Male", "Female", "Alien"}

HistoryLimit == 21
HistoryKeep == 20

Message(role, content) == [role |-> role, content |-> content]

----------------------------------------------------------------------------
(* Completion requests in flight.  create() is given the list object       *)
(* self.conversation_history itself (messages=self.conversation_history),  *)
(* and the client serialises it at some moment of the call.                *)

NewRequest(user_input, history) ==
    [arg      |-> user_input,
     issued   |-> history,    \* the list when create() was called
     messages |-> history,    \* the list object the request refers to
     alias    |-> TRUE,       \* that object is still self.conversation_history
     sent     |-> <<>>]       \* the messages serialised, <<>> before that

\* the bag of f[r] for the requests r of the bag reqs
MapRequests(f, reqs) ==
    LET S == {f[r] : r \in BagToSet(reqs)} IN
    [u \in S |-> BagCardinality([r \in {x \in BagToSet(reqs) : f[x] = u}
                                    |-> reqs[r]])]

\* self.conversation_history.append(entry) changes the list in place: every
\* request that refers to that list sees the entry
Appended(reqs, entry) ==
    MapRequests([r \in BagToSet(reqs) |->
                    IF r.alias THEN [r EXCEPT !.messages = Append(@, entry)]
                    ELSE r],
                reqs)

\* self.conversation_history = [...] binds the attribute to a new list: the
\* requests keep the old one
Rebound(reqs) ==
    MapRequests([r \in BagToSet(reqs) |-> [r EXCEPT !.alias = FALSE]], reqs)

----------------------------------------------------------------------------
(* Worker threads *)

NewThread(kind, arg, callback) ==
    [kind     |-> kind,       \* "listen", "process" or "speak"
     pc       |-> "start",
     arg      |-> arg,        \* user_input of get_response, text of speak
     callback |-> callback,   \* name of the callback, "none" for None
     text     |-> Unbound,    \* local text of listen_thread and speak_thread
     response |-> None,       \* local ai_response of process_thread
     error    |-> None,       \* local error_msg
     exc      |-> None,       \* exception that ended the try block
     cbargs   |-> <<>>]       \* arguments of every callback invocation so far

\* a thread that has returned: its locals are gone
Ended(t) ==
    [kind |-> t.kind, pc |-> "done", arg |-> None, callback |-> t.callback,
     text |-> Unbound, response |-> None, error |-> None, exc |-> None,
     cbargs |-> <<>>]

\* the distinct thread records, and how many threads of a kind there are
Threads == BagToSet(threads)
CountOf(S) == BagCardinality([t \in S |-> threads[t]])
ListenThreads == {t \in Threads : t.kind = "listen"}
ProcessThreads == {t \in Threads : t.kind = "process"}
SpeakThreads == {t \in Threads : t.kind = "speak"}
Replace(t, u) == (threads (-) SetToBag({t})) (+) SetToBag({u})

\* VoiceEngine.listen_for_speech, AIAssistant.get_response, VoiceEngine.speak:
\* each starts one daemon thread and returns
listen_for_speech(thr, callback) ==
    thr (+) SetToBag({NewThread("listen", None, callback)})
get_response(thr, user_input, callback) ==
    thr (+) SetToBag({NewThread("process", user_input, callback)})
speak(thr, text, callback) ==
    thr (+) SetToBag({NewThread("speak", text, callback)})

----------------------------------------------------------------------------
(* AnimatedCircle *)

\* set_state that takes every name but "idle" for an active state
set_state_AnyActive(state) ==
    [is_listening  |-> (state = "listening"),
     is_processing |-> (state = "processing"),
     is_active     |-> (state # "idle")]

set_state(state) ==
    [is_listening  |-> (state = "listening"),
     is_processing |-> (state = "processing"),
     is_active     |-> (state \in {"listening", "processing"})]

\* ROTATION_SPEED of config.py, and the angle at which the rotation restarts
ROTATION_SPEED == 1
FullTurn == 360

\* the rotation of update_animation that restarts only beyond a full turn
Rotate_Late(a) ==
    IF a + ROTATION_SPEED > FullTurn THEN 0 ELSE a + ROTATION_SPEED

\* update_animation: self.angle += ROTATION_SPEED; if self.angle >= 360:
\* self.angle = 0
Rotate(a) ==
    IF a + ROTATION_SPEED >= FullTurn THEN 0 ELSE a + ROTATION_SPEED

----------------------------------------------------------------------------
(* VoiceEngine *)

_configure_tts_voice(mode) ==
    [voice  |-> IF mode = "Female" /\ NumVoices > 1 THEN 2 ELSE 1,
     rate   |-> VOICE_MODES[mode].rate,
     volume |-> 9]

Init ==
    /\ status_label = "Click the circle to start voice interaction"
    /\ circle = set_state("idle")
    /\ is_listening = FALSE
    /\ is_speaking = FALSE
    /\ current_voice_mode = "Male"
    /\ tts = [voice |-> 0, rate |-> 0, volume |-> 0]
    /\ conversation_history = <<Message("system", SystemPrompt)>>
    /\ is_processing = FALSE
    /\ requests = EmptyBag
    /\ threads = EmptyBag
    /\ program = "main"
    /\ ui_thread = "event_loop"
    /\ real_ai = FALSE
    /\ tts_available = FALSE
    /\ index = 0
    /\ real_history = <<>>
    /\ workers = EmptyBag
    /\ calls = 0
    /\ conversation = <<>>
    /\ spoken = None
    /\ angle = 0

----------------------------------------------------------------------------
(* Handlers of VoiceAssistantApp that serve as worker callbacks.  thr is   *)
(* the thread table as the calling worker leaves it; the handler adds the  *)
(* worker it starts.                                                       *)

\* on_speech_recognized asking for a completion whatever the text
on_speech_recognized_Eager(text, error, thr) ==
    IF Truthy(error) THEN
        /\ status_label' = "Error: " \o error
        /\ circle' = set_state("idle")
        /\ threads' = thr
    ELSE
        /\ status_label' = "Processing your request..."
        /\ circle' = set_state("processing")
        /\ threads' = get_response(thr, text, "on_ai_response")

\* on_speech_recognized without the set_state("idle") of its error branch
on_speech_recognized_NoIdle(text, error, thr) ==
    IF Truthy(error) THEN
        /\ status_label' = "Error: " \o error
        /\ threads' = thr
        /\ UNCHANGED circle
    ELSE IF Truthy(text) THEN
        /\ status_label' = "Processing your request..."
        /\ circle' = set_state("processing")
        /\ threads' = get_response(thr, text, "on_ai_response")
    ELSE
        /\ threads' = thr
        /\ UNCHANGED uiVars

on_speech_recognized(text, error, thr) ==
    IF Truthy(error) THEN
        /\ status_label' = "Error: " \o error
        /\ circle' = set_state("idle")
        /\ threads' = thr
    ELSE IF Truthy(text) THEN
        /\ status_label' = "Processing your request..."
        /\ circle' = set_state("processing")
        /\ threads' = get_response(thr, text, "on_ai_response")
    ELSE
        /\ threads' = thr
        /\ UNCHANGED uiVars

\* startFails: Thread.start() inside voice_engine.speak raises RuntimeError
\* on_ai_response listening again after an error
on_ai_response_Retries(response, error, startFails, thr) ==
    IF Truthy(error) THEN
        /\ status_label' = "AI Error: " \o error
        /\ circle' = set_state("idle")
        /\ threads' = listen_for_speech(thr, "on_speech_recognized")
    ELSE IF Truthy(response) THEN
        /\ status_label' = "Speaking response..."
        /\ threads' = IF startFails THEN thr
                      ELSE speak(thr, response, "on_speech_complete")
        /\ UNCHANGED circle
    ELSE
        /\ threads' = thr
        /\ UNCHANGED uiVars

on_ai_response(response, error, startFails, thr) ==
    IF Truthy(error) THEN
        /\ status_label' = "AI Error: " \o error
        /\ circle' = set_state("idle")
        /\ threads' = thr
    ELSE IF Truthy(response) THEN
        /\ status_label' = "Speaking response..."
        /\ threads' = IF startFails THEN thr
                      ELSE speak(thr, response, "on_speech_complete")
        /\ UNCHANGED circle
    ELSE
        /\ threads' = thr
        /\ UNCHANGED uiVars

on_speech_complete(thr) ==
    /\ status_label' = "Click the circle to start voice interaction"
    /\ circle' = set_state("idle")
    /\ threads' = thr

\* the callable a direct caller of get_response passes: it keeps no state here
caller_callback(thr) ==
    /\ threads' = thr
    /\ UNCHANGED uiVars

\* can an invocation callback(a, b) raise an exception
CanRaise(callback, a, b) ==
    \/ callback = "caller"
    \/ callback = "on_ai_response" /\ ~Truthy(b) /\ Truthy(a)

\* callback(a, b) run by a worker; raises says whether it raises
Invoke(callback, a, b, raises, thr) ==
    CASE callback = "on_speech_recognized" -> on_speech_recognized(a, b, thr)
      [] callback = "on_ai_response" -> on_ai_response(a, b, raises, thr)
      [] callback = "on_speech_complete" -> on_speech_complete(thr)
      [] OTHER -> caller_callback(thr)

----------------------------------------------------------------------------
(* Handlers run by the GUI thread *)

\* VoiceAssistantApp.on_circle_clicked
on_circle_clicked ==
    IF is_listening \/ is_speaking THEN
        UNCHANGED vars
    ELSE
        /\ CountOf(ListenThreads) < MaxClicks
        /\ status_label' = "Listening... Speak now!"
        /\ circle' = set_state("listening")
        /\ threads' = listen_for_speech(threads, "on_speech_recognized")
        /\ UNCHANGED <<engineVars, aiVars, demoVars, animVars>>

\* set_voice_mode without the test "mode in VOICE_MODES"
set_voice_mode_Unchecked(mode) ==
    /\ current_voice_mode' = mode
    /\ tts' = IF mode \in DOMAIN VOICE_MODES THEN _configure_tts_voice(mode) ELSE tts

\* VoiceEngine.set_voice_mode
set_voice_mode(mode) ==
    IF mode \in DOMAIN VOICE_MODES THEN
        /\ current_voice_mode' = mode
        /\ tts' = _configure_tts_voice(mode)
    ELSE
        UNCHANGED <<current_voice_mode, tts>>

\* VoiceAssistantApp.on_voice_mode_changed
on_voice_mode_changed(mode) ==
    /\ set_voice_mode(mode)
    /\ UNCHANGED <<uiVars, is_listening, is_speaking, aiVars, threads, demoVars, animVars>>

\* AIAssistant.clear_conversation
ai_clear_conversation_KeepsLast(history) ==
    <<history[1], history[Len(history)]>>

ai_clear_conversation(history) == <<history[1]>>

\* VoiceAssistantApp.clear_conversation
clear_conversation ==
    /\ conversation_history' = ai_clear_conversation(conversation_history)
    /\ requests' = Rebound(requests)
    /\ UNCHANGED <<uiVars, engineVars, is_processing, threads, demoVars, animVars>>

\* VoiceEngine.stop_speaking, which closeEvent calls: tts_engine.stop() and,
\* unless it raised, is_speaking = False
stop_speaking ==
    /\ \E raises \in BOOLEAN :
          is_speaking' = IF raises THEN is_speaking ELSE FALSE
    /\ UNCHANGED <<uiVars, is_listening, current_voice_mode, tts, aiVars, threads, demoVars, animVars>>

\* VoiceAssistantApp.test_tts
test_tts ==
    /\ CountOf({t \in SpeakThreads : t.callback = "none"}) < MaxTests
    /\ threads' = speak(threads, "Testing " \o current_voice_mode \o " voice mode.", "none")
    /\ UNCHANGED <<uiVars, engineVars, aiVars, demoVars, animVars>>

----------------------------------------------------------------------------
(* Worker threads.  Call is the statement "if callback: callback(a, b)"    *)
(* of worker t; u is the worker after the step, and the callback runs on   *)
(* the worker, before the step ends.                                       *)

Call(t, a, b, raises, u) ==
    IF t.callback = "none" THEN
        /\ threads' = Replace(t, u)
        /\ UNCHANGED uiVars
    ELSE
        Invoke(t.callback, a, b, raises,
               Replace(t, [u EXCEPT !.cbargs = Append(@, <<a, b>>)]))

At(t, kind, pc) ==
    /\ t \in Threads
    /\ t.kind = kind
    /\ t.pc = pc

(* VoiceEngine.listen_for_speech.listen_thread *)

\* exceptions of listen / recognize_google that listen_thread handles
ListenErrors == {"WaitTimeoutError", "UnknownValueError", "RequestError"}
\* an exception listen_thread has no except clause for
ListenUnhandled == {"OSError"}

ListenErrorMsg(e) ==
    CASE e = "WaitTimeoutError" -> "Listening timeout"
      [] e = "UnknownValueError" -> "Could not understand audio"
      [] e = "RequestError" -> "Could not request results; connection failed"

ListenStart(t) ==
    /\ At(t, "listen", "start")
    /\ is_listening' = TRUE
    /\ threads' = Replace(t, [t EXCEPT !.pc = "listening"])
    /\ UNCHANGED <<uiVars, is_speaking, current_voice_mode, tts, aiVars, demoVars, animVars>>

ListenResult(t) ==
    /\ At(t, "listen", "listening")
    /\ \/ \E text \in Texts :
            Call(t, text, None, FALSE, [t EXCEPT !.pc = "finally", !.text = text])
       \/ \E e \in ListenErrors :
            Call(t, None, ListenErrorMsg(e), FALSE,
                 [t EXCEPT !.pc = "finally", !.exc = e, !.error = ListenErrorMsg(e)])
       \/ \E e \in ListenUnhandled :
            /\ threads' = Replace(t, [t EXCEPT !.pc = "finally", !.exc = e])
            /\ UNCHANGED uiVars
    /\ UNCHANGED <<engineVars, aiVars, demoVars, animVars>>

\* a finally clause that leaves the flag as it is
ListenFinally_KeepsFlag(t) ==
    /\ At(t, "listen", "finally")
    /\ threads' = Replace(t, Ended(t))
    /\ UNCHANGED <<uiVars, engineVars, aiVars, demoVars, animVars>>

ListenFinally(t) ==
    /\ At(t, "listen", "finally")
    /\ is_listening' = FALSE
    /\ threads' = Replace(t, Ended(t))
    /\ UNCHANGED <<uiVars, is_speaking, current_voice_mode, tts, aiVars, demoVars, animVars>>

(* AIAssistant.get_response.process_thread *)

\* the trim after the assistant message is appended
Trim_KeepsOldest(history) ==
    IF Len(history) > HistoryLimit
    THEN <<history[1]>> \o SubSeq(history, 2, HistoryKeep + 1)
    ELSE history

Trim_DropsSystem(history) ==
    IF Len(history) > HistoryLimit
    THEN SubSeq(history, Len(history) - HistoryKeep, Len(history))
    ELSE history

Trim(history) ==
    IF Len(history) > HistoryLimit
    THEN <<history[1]>> \o SubSeq(history, Len(history) - HistoryKeep + 1, Len(history))
    ELSE history

ProcessStart(t) ==
    /\ At(t, "process", "start")
    /\ is_processing' = TRUE
    /\ threads' = Replace(t, [t EXCEPT !.pc = "append"])
    /\ UNCHANGED <<uiVars, engineVars, conversation_history, requests, demoVars, animVars>>

ProcessAppendUser(t) ==
    /\ At(t, "process", "append")
    /\ conversation_history' = Append(conversation_history, Message("user", t.arg))
    /\ requests' = Appended(requests, Message("user", t.arg))
    /\ threads' = Replace(t, [t EXCEPT !.pc = "issue"])
    /\ UNCHANGED <<uiVars, engineVars, is_processing, demoVars, animVars>>

\* chat.completions.create(messages=self.conversation_history, ...) is called
ProcessIssue(t) ==
    /\ At(t, "process", "issue")
    /\ requests' = requests (+) SetToBag({NewRequest(t.arg, conversation_history)})
    /\ threads' = Replace(t, [t EXCEPT !.pc = "request"])
    /\ UNCHANGED <<uiVars, engineVars, conversation_history, is_processing, demoVars, animVars>>

\* the client serialises the messages of a request: the list as it is then.
\* The request does not read the list again.
ProcessSerialise(t) ==
    /\ At(t, "process", "request")
    /\ \E r \in BagToSet(requests) :
          /\ r.arg = t.arg /\ r.sent = <<>>
          /\ requests' = (requests (-) SetToBag({r}))
                             (+) SetToBag({[r EXCEPT !.sent = r.messages,
                                                     !.alias = FALSE]})
    /\ UNCHANGED <<uiVars, engineVars, conversation_history, is_processing, threads, demoVars, animVars>>

\* the requests left when the request r has returned a reply that was
\* appended to history
Answered(r, history, reply) ==
    LET rest == Appended(requests (-) SetToBag({r}), reply) IN
    IF Trim(Append(history, reply)) # Append(history, reply)
    THEN Rebound(rest) ELSE rest

\* ProcessRequest with the failure recorded in the history as an Assistant
\* message
ProcessRequest_RecordsFailure(t) ==
    /\ At(t, "process", "request")
    /\ \E q \in BagToSet(requests) :
        /\ q.arg = t.arg
        /\ \/ \E r \in Replies(t.arg) :
                /\ q.sent # <<>>
                /\ conversation_history' =
                       Trim(Append(conversation_history, Message("assistant", r)))
                /\ requests' = Answered(q, conversation_history,
                                        Message("assistant", r))
                /\ threads' = Replace(t, [t EXCEPT !.pc = "callback",
                                                   !.response = r])
           \/ /\ threads' = Replace(t, [t EXCEPT !.pc = "except",
                                                 !.exc = "APIError"])
              /\ requests' = Appended(requests (-) SetToBag({q}),
                                      Message("assistant", "AI Error"))
              /\ conversation_history' =
                     Append(conversation_history, Message("assistant", "AI Error"))
    /\ UNCHANGED <<uiVars, engineVars, is_processing, demoVars, animVars>>

\* chat.completions.create returns, or it (or the strip() of a reply without
\* content) raises; on return the reply is appended and the history trimmed
ProcessRequest(t) ==
    /\ At(t, "process", "request")
    /\ \E q \in BagToSet(requests) :
        /\ q.arg = t.arg
        /\ \/ \E r \in Replies(t.arg) :
                /\ q.sent # <<>>
                /\ conversation_history' =
                       Trim(Append(conversation_history, Message("assistant", r)))
                /\ requests' = Answered(q, conversation_history,
                                        Message("assistant", r))
                /\ threads' = Replace(t, [t EXCEPT !.pc = "callback",
                                                   !.response = r])
           \/ /\ threads' = Replace(t, [t EXCEPT !.pc = "except",
                                                 !.exc = "APIError"])
              /\ requests' = requests (-) SetToBag({q})
              /\ UNCHANGED conversation_history
    /\ UNCHANGED <<uiVars, engineVars, is_processing, demoVars, animVars>>

ProcessCallback(t) ==
    /\ At(t, "process", "callback")
    /\ \E raises \in BOOLEAN :
        /\ raises => CanRaise(t.callback, t.response, None)
        /\ Call(t, t.response, None, raises,
                [t EXCEPT !.pc = IF raises THEN "except" ELSE "finally",
                          !.exc = IF raises THEN "RuntimeError" ELSE None])
    /\ UNCHANGED <<engineVars, aiVars, demoVars, animVars>>

ProcessExcept(t) ==
    /\ At(t, "process", "except")
    /\ LET error_msg == "AI Error: " \o t.exc IN
        Call(t, None, error_msg, FALSE,
             [t EXCEPT !.pc = "finally", !.error = error_msg])
    /\ UNCHANGED <<engineVars, aiVars, demoVars, animVars>>

ProcessFinally(t) ==
    /\ At(t, "process", "finally")
    /\ is_processing' = FALSE
    /\ threads' = Replace(t, Ended(t))
    /\ UNCHANGED <<uiVars, engineVars, conversation_history, requests, demoVars, animVars>>

(* VoiceEngine.speak.speak_thread *)

SpeakStart(t) ==
    /\ At(t, "speak", "start")
    /\ is_speaking' = TRUE
    /\ threads' = Replace(t, [t EXCEPT !.pc = "speaking"])
    /\ UNCHANGED <<uiVars, is_listening, current_voice_mode, tts, aiVars, demoVars, animVars>>

\* The try block.  speak_thread assigns to text (in the Alien branch), so
\* text is a local of speak_thread and not the parameter of speak: both the
\* Alien branch and the print read it before it has a value, and the read
\* raises UnboundLocalError, which the except clause prints.
SpeakRun(t) ==
    /\ At(t, "speak", "speaking")
    /\ tts' = _configure_tts_voice(current_voice_mode)
    /\ IF t.text = Unbound THEN
          /\ threads' = Replace(t, [t EXCEPT !.pc = "finally",
                                             !.exc = "UnboundLocalError"])
          /\ UNCHANGED uiVars
       ELSE
          \E played \in BOOLEAN :
             IF played THEN
                Call(t, None, None, FALSE, [t EXCEPT !.pc = "finally"])
             ELSE
                /\ threads' = Replace(t, [t EXCEPT !.pc = "finally",
                                                   !.exc = "TTSError"])
                /\ UNCHANGED uiVars
    /\ UNCHANGED <<is_listening, is_speaking, current_voice_mode, aiVars, demoVars, animVars>>

SpeakFinally(t) ==
    /\ At(t, "speak", "finally")
    /\ is_speaking' = FALSE
    /\ threads' = Replace(t, Ended(t))
    /\ UNCHANGED <<uiVars, is_listening, current_voice_mode, tts, aiVars, demoVars, animVars>>

----------------------------------------------------------------------------
(* The application *)

VoiceModeChanged == \E mode \in VoiceSelectorItems : on_voice_mode_changed(mode)

ListenStep ==
    \/ \E t \in Threads : ListenStart(t)
    \/ \E t \in Threads : ListenResult(t)
    \/ \E t \in Threads : ListenFinally(t)

ProcessStep ==
    \/ \E t \in Threads : ProcessStart(t)
    \/ \E t \in Threads : ProcessAppendUser(t)
    \/ \E t \in Threads : ProcessIssue(t)
    \/ \E t \in Threads : ProcessSerialise(t)
    \/ \E t \in Threads : ProcessRequest(t)
    \/ \E t \in Threads : ProcessCallback(t)
    \/ \E t \in Threads : ProcessExcept(t)
    \/ \E t \in Threads : ProcessFinally(t)

SpeakStep ==
    \/ \E t \in Threads : SpeakStart(t)
    \/ \E t \in Threads : SpeakRun(t)
    \/ \E t \in Threads : SpeakFinally(t)

\* one interaction cycle after another: the circle, the Clear button and the
\* workers
Next ==
    \/ on_circle_clicked
    \/ clear_conversation
    \/ ListenStep
    \/ ProcessStep
    \/ SpeakStep

Spec == Init /\ [][Next]_vars

\* the whole window: the voice selector and the Test TTS button as well
NextPanel ==
    \/ Next
    \/ VoiceModeChanged
    \/ test_tts

SpecPanel == Init /\ [][NextPanel]_vars

\* the interaction cycles with stop_speaking called at any moment
NextStop ==
    \/ Next
    \/ stop_speaking

SpecStop == Init /\ [][NextStop]_vars

\* interaction cycles with VoiceEngine.set_voice_mode called at any moment,
\* with the names of VOICE_MODES and with other names
VoiceNames == DOMAIN VOICE_MODES \cup {"Robot", ""}

SetVoiceModeCall ==
    /\ \E mode \in VoiceNames : set_voice_mode(mode)
    /\ UNCHANGED <<uiVars, is_listening, is_speaking, aiVars, threads, demoVars, animVars>>

NextVoice ==
    \/ CountOf(ListenThreads) < MaxVoiceCycles /\ on_circle_clicked
    \/ clear_conversation
    \/ ListenStep
    \/ ProcessStep
    \/ SpeakStep
    \/ SetVoiceModeCall

SpecVoice == Init /\ [][NextVoice]_vars

\* the same with every worker thread scheduled: a worker that can take a
\* step takes it sooner or later (the blocking calls of listen_thread,
\* process_thread and speak_thread return or raise)
SpecVoiceFair ==
    /\ SpecVoice
    /\ WF_vars(ListenStep)
    /\ WF_vars(ProcessStep)
    /\ WF_vars(SpeakStep)

----------------------------------------------------------------------------
(* The assistant alone: get_response called directly, one call at a time,  *)
(* and clear_conversation at any moment.                                   *)

GetResponseCall ==
    /\ BagCardinality(threads) < MaxCalls
    /\ \A t \in Threads : t.pc = "done"
    /\ threads' = get_response(threads, Utterance(BagCardinality(threads) + 1), "caller")
    /\ UNCHANGED <<uiVars, engineVars, aiVars, demoVars, animVars>>

AssistantClear ==
    /\ conversation_history' = ai_clear_conversation(conversation_history)
    /\ requests' = Rebound(requests)
    /\ UNCHANGED <<uiVars, engineVars, is_processing, threads, demoVars, animVars>>

NextAI ==
    \/ GetResponseCall
    \/ AssistantClear
    \/ ProcessStep

SpecAI == Init /\ [][NextAI]_vars

\* AIAssistant.set_system_prompt: the content of the first message is
\* assigned in place.  The lists made by the trim and by clear_conversation
\* hold that same message, and so do the lists of the requests in flight.
Prompts == {SystemPrompt, "You are terse"}

set_system_prompt(prompt) ==
    /\ conversation_history' = [conversation_history EXCEPT ![1].content = prompt]
    /\ requests' = MapRequests([r \in BagToSet(requests) |->
                                   [r EXCEPT !.messages[1].content = prompt]],
                               requests)
    /\ UNCHANGED <<uiVars, engineVars, is_processing, threads, demoVars, animVars>>

\* the assistant alone, with set_system_prompt called at any moment
NextPrompt ==
    \/ NextAI
    \/ \E prompt \in Prompts : set_system_prompt(prompt)

SpecPrompt == Init /\ [][NextPrompt]_vars

----------------------------------------------------------------------------
(* The demo programs: demo.py (PyQt), demo_pyside.py, demo_tkinter.py and  *)
(* demo_safe.py.  Each is a program of its own; the variables of the       *)
(* application keep their initial values while a demo runs.                *)

Programs == {"demo", "pyside", "tkinter", "safe"}
\* the demos with a Qt window, and those with a Tk window
QtDemos == {"demo", "pyside"}
TkDemos == {"tkinter", "safe"}
ApiKeys == {"", "sk-key"}

\* get_response calls made in one run of a demo
MaxDemoCalls == 10
\* of these, calls of the real assistant
MaxRealCalls == 6
\* get_response calls in progress at the same time
MaxWorkers == 2

\* self.responses of DemoAIAssistant (demo.py, demo_pyside.py) and of DemoAI
\* (demo_tkinter.py, demo_safe.py)
DemoAIAssistant_responses ==
    <<"Hello! I'm ARIA", "I'm working perfectly!", "In this demo",
      "The animated circle", "This futuristic design", "I would normally",
      "You can test", "The conversation history", "Thank you">>
DemoAI_responses ==
    <<"Hello! I'm ARIA", "My audio system", "This demo showcases",
      "Try changing my voice mode", "I would normally",
      "The voice synthesis", "This demonstrates", "Thank you">>
\* history[-8:] of RealAI, conversation_history[-10:] of RealAIAssistant
HistorySliceTk == 8
HistorySliceQt == 10

responses ==
    IF program \in QtDemos THEN DemoAIAssistant_responses
    ELSE DemoAI_responses
NumResponses == Len(responses)
HistorySlice == IF program \in QtDemos THEN HistorySliceQt ELSE HistorySliceTk

\* self.responses[i], i from 0
Response(i) == responses[i + 1]

\* the system message each request of a demo starts with
DemoSystemPrompt == "You are ARIA, a helpful voice assistant"

\* the input test_voice gives to the assistant
TestInput == "Hello ARIA, can you hear me?"

\* what the completion service can answer, and how a request can fail
DemoReply(user_input) == "re " \o user_input
DemoFailures == {"Connection error."}

\* list[-n:]
LastN(list, n) ==
    IF Len(list) <= n THEN list
    ELSE SubSeq(list, Len(list) - n + 1, Len(list))

\* add_message / add_to_conversation: one more line in the display
add_message(display, speaker, message) ==
    Append(display, <<speaker, message>>)

\* the text the voice engine is given by a handler that speaks: the Tkinter
\* demo speaks if TTS_AVAILABLE, the other demos call speak() in any case
safe_speak(text) ==
    IF program # "tkinter" \/ tts_available THEN text ELSE spoken

\* a get_response call in progress: a thread of test_voice or of
\* RealAIAssistant.get_response (kind "RealAI"), a timer or thread of
\* DemoAIAssistant.get_response (kind "DemoAI")
NewWorker(kind, user_input) ==
    [kind       |-> kind,
     pc         |-> "start",
     user_input |-> user_input,
     sent       |-> <<>>,       \* messages=[...] of the request
     response   |-> Unbound,    \* what the UI thread is handed
     error      |-> Unbound]

Replaced(w, v) == (workers (-) SetToBag({w})) (+) SetToBag({v})
Removed(w) == workers (-) SetToBag({w})

\* DemoAI.get_response / DemoAIAssistant._deliver_response: the response
\* chosen when the index is i
DemoAI_get_response_Saturates(i) ==
    Response(IF i < NumResponses THEN i ELSE NumResponses - 1)

DemoAI_get_response(i) == Response(i % NumResponses)

\* DemoVoiceAssistantApp.on_api_key_entered (demo_pyside.py), up to the test
\* request: with a key, client.chat.completions.create(...) is called by the
\* handler itself, on the UI thread
on_api_key_entered ==
    /\ program = "pyside" /\ ui_thread = "event_loop" /\ ~real_ai
    /\ \E api_key \in ApiKeys :
          ui_thread' = IF api_key # "" THEN "on_api_key_entered: create"
                       ELSE "event_loop"
    /\ UNCHANGED <<appVars, program, real_ai, tts_available, index, real_history,
                   workers, calls, conversation, spoken>>

\* the test request returns, and the assistant becomes a RealAIAssistant
\* with an empty history, or it raises; the handler returns to the event loop
on_api_key_entered_return ==
    /\ program = "pyside" /\ ui_thread = "on_api_key_entered: create"
    /\ \E ok \in BOOLEAN : real_ai' = ok
    /\ ui_thread' = "event_loop"
    /\ UNCHANGED <<appVars, program, tts_available, index, real_history,
                   workers, calls, conversation, spoken>>

\* VoiceAssistantApp.enable_real_ai (demo_tkinter.py, demo_safe.py): with a
\* key, self.real_ai = RealAI(api_key), unless the constructor raises
enable_real_ai ==
    /\ program \in TkDemos /\ ui_thread = "event_loop" /\ ~real_ai
    /\ \E api_key \in ApiKeys, ok \in BOOLEAN :
          IF api_key # "" /\ ok
          THEN /\ real_ai' = TRUE
               /\ real_history' = <<>>
               /\ conversation' =
                      add_message(conversation, "System", "Real AI enabled!")
               /\ spoken' = safe_speak("Real AI enabled successfully!")
          ELSE UNCHANGED <<real_ai, real_history, conversation, spoken>>
    /\ UNCHANGED <<appVars, program, ui_thread, tts_available, index,
                   workers, calls>>

\* VoiceAssistantApp.test_voice (demo_tkinter.py, demo_safe.py): with the
\* real assistant a thread is started, whatever threads are running;
\* otherwise DemoAI answers at once and handle_response shows the answer
test_voice ==
    /\ program \in TkDemos /\ ui_thread = "event_loop"
    /\ calls < MaxDemoCalls
    /\ LET shown == add_message(conversation, "You", TestInput) IN
       IF real_ai
       THEN /\ calls < MaxRealCalls
            /\ BagCardinality(workers) < MaxWorkers
            /\ workers' = workers (+) SetToBag({NewWorker("RealAI", TestInput)})
            /\ conversation' = shown
            /\ UNCHANGED <<index, spoken>>
       ELSE /\ index' = index + 1
            /\ conversation' =
                   add_message(shown, "ARIA", DemoAI_get_response(index))
            /\ spoken' = safe_speak(DemoAI_get_response(index))
            /\ UNCHANGED workers
    /\ calls' = calls + 1
    /\ UNCHANGED <<appVars, program, ui_thread, real_ai, tts_available,
                   real_history>>

\* RealAIAssistant.get_response(user_input, callback) of demo_pyside.py,
\* called with the test input: it starts a thread
RealAIAssistant_get_response ==
    /\ program = "pyside" /\ real_ai
    /\ calls < MaxRealCalls
    /\ BagCardinality(workers) < MaxWorkers
    /\ workers' = workers (+) SetToBag({NewWorker("RealAI", TestInput)})
    /\ calls' = calls + 1
    /\ UNCHANGED <<appVars, program, ui_thread, real_ai, tts_available,
                   index, real_history, conversation, spoken>>

\* RealAI.get_response / get_real_response, first statement:
\* self.history.append({"role": "user", "content": user_input})
RealAppend(w) ==
    /\ w.kind = "RealAI" /\ w.pc = "start"
    /\ real_history' = Append(real_history, Message("user", w.user_input))
    /\ workers' = Replaced(w, [w EXCEPT !.pc = "create"])
    /\ UNCHANGED <<appVars, program, ui_thread, real_ai, tts_available,
                   index, calls, conversation, spoken>>

\* the messages of the request: the system prompt, then history[-8:]
\* (conversation_history[-10:]) as the history is at this moment
RealMessages(list) ==
    <<Message("system", DemoSystemPrompt)>> \o LastN(list, HistorySlice)

\* self.client.chat.completions.create(model=..., messages=[...]) is called
RealCreate(w) ==
    /\ w.kind = "RealAI" /\ w.pc = "create"
    /\ workers' = Replaced(w, [w EXCEPT !.pc = "await",
                                        !.sent = RealMessages(real_history)])
    /\ UNCHANGED <<appVars, program, ui_thread, real_ai, tts_available,
                   index, real_history, calls, conversation, spoken>>

\* what get_response hands over when the request has failed with e: RealAI
\* returns a string, RealAIAssistant calls callback(None, str(e))
RealFailed_Raises(w, e) ==
    [w EXCEPT !.pc = "raised", !.response = None, !.error = e]

RealFailed(w, e) ==
    IF program \in TkDemos
    THEN [w EXCEPT !.pc = "posted", !.response = "AI Error: " \o e,
                   !.error = None]
    ELSE [w EXCEPT !.pc = "posted", !.response = None, !.error = e]

\* create() returns, the reply is appended to the history and handed to the
\* UI thread (root.after(0, ...), QTimer.singleShot(0, ...)); or create()
\* raises and the except clause hands over the error
RealReturn(w) ==
    /\ w.kind = "RealAI" /\ w.pc = "await"
    /\ \/ /\ real_history' = Append(real_history,
                          Message("assistant", DemoReply(w.user_input)))
          /\ workers' = Replaced(w, [w EXCEPT
                            !.pc = "posted",
                            !.response = DemoReply(w.user_input),
                            !.error = None])
       \/ \E e \in DemoFailures :
             /\ workers' = Replaced(w, RealFailed(w, e))
             /\ UNCHANGED real_history
    /\ UNCHANGED <<appVars, program, ui_thread, real_ai, tts_available,
                   index, calls, conversation, spoken>>

\* handle_response(response) of the Tk demos, on_ai_response(response, error)
\* of the Qt demos, which shows and speaks a response that is not empty
handle_response(response) ==
    IF program \in TkDemos \/ Truthy(response)
    THEN /\ conversation' = add_message(conversation, "ARIA", response)
         /\ spoken' = safe_speak(response)
    ELSE UNCHANGED <<conversation, spoken>>

\* the UI thread runs the callback a real-assistant thread has queued
RealHandle(w) ==
    /\ w.kind = "RealAI" /\ w.pc = "posted"
    /\ ui_thread = "event_loop"
    /\ handle_response(w.response)
    /\ workers' = Removed(w)
    /\ UNCHANGED <<appVars, program, ui_thread, real_ai, tts_available,
                   index, real_history, calls>>

\* DemoAIAssistant.get_response(user_input, callback) of demo.py and
\* demo_pyside.py, called by on_speech_recognized / on_test_clicked after
\* the user's line is shown: a thread (a timer) answers two seconds later
DemoAIAssistant_get_response ==
    /\ program \in QtDemos /\ ~real_ai /\ ui_thread = "event_loop"
    /\ calls < MaxDemoCalls
    /\ BagCardinality(workers) < MaxWorkers
    /\ conversation' = add_message(conversation, "You", Utterance(calls))
    /\ workers' = workers (+) SetToBag({NewWorker("DemoAI", Utterance(calls))})
    /\ calls' = calls + 1
    /\ UNCHANGED <<appVars, program, ui_thread, real_ai, tts_available,
                   index, real_history, spoken>>

\* delayed_response / _deliver_response: the response at the index, the
\* index incremented, callback(response, None)
_deliver_response(w) ==
    /\ w.kind = "DemoAI" /\ w.pc = "start"
    /\ program = "pyside" => ui_thread = "event_loop"
    /\ index' = index + 1
    /\ handle_response(DemoAI_get_response(index))
    /\ workers' = Removed(w)
    /\ UNCHANGED <<appVars, program, ui_thread, real_ai, tts_available,
                   real_history, calls>>

\* the assistant's clear_conversation: DemoAIAssistant resets the index,
\* RealAIAssistant binds conversation_history to a new empty list
assistant_clear_conversation ==
    IF real_ai
    THEN real_history' = <<>> /\ UNCHANGED index
    ELSE index' = 0 /\ UNCHANGED real_history

\* the Clear button.  Qt demos: the display is cleared and the assistant's
\* clear_conversation is called.  Tk demos: the display is cleared and
\* self.ai = DemoAI(); self.real_ai is not touched
demo_clear_conversation ==
    /\ program \in Programs /\ ui_thread = "event_loop"
    /\ conversation # <<>>
    /\ conversation' = <<>>
    /\ IF program \in QtDemos
       THEN assistant_clear_conversation
       ELSE index' = 0 /\ UNCHANGED real_history
    /\ UNCHANGED <<appVars, program, ui_thread, real_ai, tts_available,
                   workers, calls, spoken>>

InitDemo ==
    /\ status_label = "Click the circle to start voice interaction"
    /\ circle = set_state("idle")
    /\ is_listening = FALSE
    /\ is_speaking = FALSE
    /\ current_voice_mode = "Male"
    /\ tts = [voice |-> 0, rate |-> 0, volume |-> 0]
    /\ conversation_history = <<Message("system", SystemPrompt)>>
    /\ is_processing = FALSE
    /\ requests = EmptyBag
    /\ threads = EmptyBag
    /\ program \in Programs
    /\ ui_thread = "event_loop"
    /\ real_ai = FALSE
    /\ tts_available \in (IF program = "tkinter" THEN BOOLEAN ELSE {FALSE})
    /\ index = 0
    /\ real_history = <<>>
    /\ workers = EmptyBag
    /\ calls = 0
    /\ conversation = <<>>
    /\ spoken = None
    /\ angle = 0

\* the demos as they start, with the pre-programmed assistant
NextDemo ==
    \/ on_api_key_entered
    \/ on_api_key_entered_return
    \/ enable_real_ai
    \/ ~real_ai /\ test_voice
    \/ DemoAIAssistant_get_response
    \/ demo_clear_conversation
    \/ \E w \in BagToSet(workers) : _deliver_response(w)

SpecDemo == InitDemo /\ [][NextDemo]_vars

\* the demos that have a real assistant, used with it from the start
InitRealAI == InitDemo /\ program # "demo"

NextRealAI ==
    \/ on_api_key_entered
    \/ on_api_key_entered_return
    \/ enable_real_ai
    \/ real_ai /\ test_voice
    \/ RealAIAssistant_get_response
    \/ demo_clear_conversation
    \/ \E w \in BagToSet(workers) :
          \/ RealAppend(w)
          \/ RealCreate(w)
          \/ RealReturn(w)
          \/ RealHandle(w)

SpecRealAI == InitRealAI /\ [][NextRealAI]_vars

----------------------------------------------------------------------------
(* The animated circle alone: set_state called with any name, and the      *)
(* ticks of its timer.                                                     *)

\* names given to set_state: those the window uses and others
StateNames == {"idle", "listening", "processing", "speaking", "Listening", ""}

\* AnimatedCircle.set_state(state), called directly
SetStateCall ==
    /\ \E state \in StateNames : circle' = set_state(state)
    /\ UNCHANGED <<status_label, engineVars, aiVars, threads, demoVars, animVars>>

\* AnimatedCircle.update_animation, a tick of the 16 ms timer; the pulse and
\* the radius it also computes are not modelled
update_animation ==
    /\ angle' = Rotate(angle)
    /\ UNCHANGED <<uiVars, engineVars, aiVars, threads, demoVars>>

NextCircle ==
    \/ SetStateCall
    \/ update_animation

SpecCircle == Init /\ [][NextCircle]_vars

----------------------------------------------------------------------------
(* What a step did to the workers, and what the window presents *)

\* the workers of one kind, and how many of them have not returned
Restrict(thr, kind) == [t \in {u \in BagToSet(thr) : u.kind = kind} |-> thr[t]]
Outstanding(thr, kind) ==
    BagCardinality([t \in {u \in BagToSet(thr) : u.kind = kind /\ u.pc # "done"}
                       |-> thr[t]])

\* this step started a worker of the kind
Started(kind) ==
    BagCardinality(Restrict(threads', kind)) > BagCardinality(Restrict(threads, kind))
\* this step was taken by worker t, and it left some worker as u
Stepped(t) == t \in Threads /\ CopiesIn(t, threads') < CopiesIn(t, threads)
Became(u) == CopiesIn(u, threads') > CopiesIn(u, threads)

\* the interaction state the status label shows
Presentation(label) ==
    CASE label = "Listening... Speak now!" -> "Listening"
      [] label = "Processing your request..." -> "Processing"
      [] label = "Speaking response..." -> "Speaking"
      [] OTHER -> "Idle"

\* the status label shows an error text
ErrorShown(label) ==
    label \notin {"Click the circle to start voice interaction",
                  "Listening... Speak now!", "Processing your request...",
                  "Speaking response..."}

\* a worker of an interaction cycle has not returned
CycleInProgress == \E t \in Threads : t.pc # "done" /\ t.callback # "none"

\* callback(a, b) got exactly one of its two arguments
ExactlyOneNonNull(args) == (args[1] = None) # (args[2] = None)

----------------------------------------------------------------------------
(* Successful exchanges run one at a time: get_response called directly,   *)
(* the next call after the last has returned, and the completion service   *)
(* answers every request.                                                  *)

ExchangeSucceeds ==
    \E t \in Threads :
        /\ ProcessRequest(t)
        /\ \E u \in BagToSet(threads') : Became(u) /\ u.pc = "callback"

NextExchanges ==
    \/ GetResponseCall
    \/ \E t \in Threads : ProcessStart(t)
    \/ \E t \in Threads : ProcessAppendUser(t)
    \/ \E t \in Threads : ProcessIssue(t)
    \/ \E t \in Threads : ProcessSerialise(t)
    \/ ExchangeSucceeds
    \/ \E t \in Threads : ProcessCallback(t)
    \/ \E t \in Threads : ProcessExcept(t)
    \/ \E t \in Threads : ProcessFinally(t)

SpecExchanges == Init /\ [][NextExchanges]_vars

\* the number of User/Assistant pairs the trim keeps
Cap == HistoryKeep \div 2

\* the two entries of the i-th exchange of SpecExchanges, and those of the
\* exchanges lo..hi in order
ExchangePair(i) ==
    <<Message("user", Utterance(i)),
      Message("assistant", "re " \o Utterance(i))>>

RECURSIVE Exchanges(_, _)
Exchanges(lo, hi) ==
    IF lo > hi THEN <<>> ELSE ExchangePair(lo) \o Exchanges(lo + 1, hi)

\* every get_response call made so far has returned
AllReturned == \A t \in Threads : t.pc = "done"

\* this step is a process_thread appending the reply and trimming
TrimStep ==
    /\ \E t \in ProcessThreads : t.pc = "request" /\ Stepped(t)
    /\ conversation_history' # conversation_history
    /\ Len(conversation_history') # Len(conversation_history) + 1

\* the assistant entry at index i directly follows the user entry it answers
\* (get_response called directly: the reply to q is "re q")
AnswersPrevious(history, i) ==
    /\ i > 1
    /\ history[i - 1].role = "user"
    /\ history[i].content = "re " \o history[i - 1].content

\* this step is clear_conversation: no worker moved, the attribute was bound
\* to a new list, and nothing but the history can have changed
ClearStep ==
    /\ requests' = Rebound(requests)
    /\ UNCHANGED <<uiVars, engineVars, is_processing, threads>>

\* process_thread t has appended its User message and not yet returned, and
\* the history no longer holds that message: it was cleared in between
Stale(t) ==
    /\ t \in ProcessThreads
    /\ t.pc \in {"issue", "request", "callback", "except"}
    /\ \A i \in 1..Len(conversation_history) :
          conversation_history[i] # Message("user", t.arg)

\* this step is stop_speaking clearing the flag while a speak worker is in
\* its try block
StopWhileSpeaking ==
    /\ threads' = threads
    /\ is_speaking /\ ~is_speaking'
    /\ \E t \in SpeakThreads : t.pc = "speaking"

\* this step moves the status label into the interaction state
Enters(state) ==
    /\ Presentation(status_label) # state
    /\ Presentation(status_label') = state

\* one interaction cycle has been started, ever
FirstCycle == BagCardinality(Restrict(threads, "listen")) = 1

\* on_circle_clicked would return at once, starting nothing
ClickDropped == is_listening \/ is_speaking

\* the window presents Idle: the circle is idle and the label shows none of
\* Listening, Processing, Speaking
IdlePresented ==
    /\ circle = set_state("idle")
    /\ Presentation(status_label) = "Idle"

\* this step is a worker meeting an error of its service, or handling one
ErrorStep ==
    \E u \in BagToSet(threads') :
        Became(u) /\ (u.exc # None \/ u.error # None)

\* the number of workers of a kind started so far
Calls(thr, kind) == BagCardinality(Restrict(thr, kind))

\* the entries of a history
Entries(history) == {history[i] : i \in 1..Len(history)}

----------------------------------------------------------------------------
(* Claims *)

\* C1: single-flight.  A click handled while a worker of an interaction cycle
\* (listening, completion request in flight, speaking) has not returned starts
\* no listen_for_speech worker.
C1_SingleFlight == [][CycleInProgress => ~Started("listen")]_vars

\* C2: the busy check is atomic with the move to Listening.  Whenever a click
\* starts a listen_for_speech worker, that worker is the only Speech-Input
\* call outstanding.
C2_AtomicBusyCheck == [][Started("listen") => Outstanding(threads', "listen") = 1]_vars

\* C3: playback complete returns to Idle.  A speak(response,
\* on_speech_complete) worker whose TTS engine raised no error has, at the end
\* of its try block, invoked on_speech_complete exactly once.
C3_PlaybackCompleteInvokesCallback ==
    \A t \in SpeakThreads :
        (t.callback = "on_speech_complete" /\ t.pc = "finally" /\ t.exc # "TTSError")
            => Len(t.cbargs) = 1

\* C4: never stuck.  Every result delivered to on_speech_recognized moves the
\* presentation from Listening to Processing or Idle, and every result
\* delivered to on_ai_response moves it from Processing to Speaking or Idle.
C4_NeverStuck ==
    [][\A t \in Threads :
          (Stepped(t) /\ \E u \in BagToSet(threads') :
                            /\ Became(u)
                            /\ u.kind = t.kind
                            /\ Len(u.cbargs) = Len(t.cbargs) + 1)
          => /\ (t.callback = "on_speech_recognized"
                    /\ Presentation(status_label) = "Listening")
                => Presentation(status_label') \in {"Processing", "Idle"}
             /\ (t.callback = "on_ai_response"
                    /\ Presentation(status_label) = "Processing")
                => Presentation(status_label') \in {"Speaking", "Idle"}]_vars

\* C5: the callback of get_response is single-shot.  A process_thread with a
\* callback invokes it at most once, has invoked it once when its try
\* statement ends, and passes exactly one of (response, error).
C5_CompletionCallbackOnce ==
    \A t \in ProcessThreads :
        t.callback # "none" =>
            /\ Len(t.cbargs) <= 1
            /\ t.pc = "finally" => Len(t.cbargs) = 1
            /\ \A k \in 1..Len(t.cbargs) : ExactlyOneNonNull(t.cbargs[k])

\* C6: the callback of listen_for_speech is single-shot for every outcome of
\* the speech service: invoked at most once, once when the try statement
\* ends, with exactly one of (text, error).
C6_ListenCallbackOnce ==
    \A t \in ListenThreads :
        t.callback # "none" =>
            /\ Len(t.cbargs) <= 1
            /\ t.pc = "finally" => Len(t.cbargs) = 1
            /\ \A k \in 1..Len(t.cbargs) : ExactlyOneNonNull(t.cbargs[k])

\* C7: a playback failure is surfaced.  The step in which the try block of a
\* cycle's speak worker ends with an exception leaves the presentation Idle
\* with an error text shown.
C7_PlaybackFailureSurfaced ==
    [][(\E u \in BagToSet(threads') :
            /\ Became(u)
            /\ u.kind = "speak" /\ u.callback = "on_speech_complete"
            /\ u.pc = "finally" /\ u.exc # None)
       => Presentation(status_label') = "Idle" /\ ErrorShown(status_label')]_vars

\* C8: a speech-input failure (timeout, unrecognized audio, request error)
\* returns the presentation to Idle with the error text shown, issues no
\* completion request and appends nothing to the history; nor does any other
\* step of a click or of a listen worker touch the history.
C8_ListenFailureToIdle ==
    [][/\ \A e \in ListenErrors :
            (\E u \in BagToSet(threads') :
                Became(u) /\ u.kind = "listen" /\ u.pc = "finally" /\ u.exc = e)
            => /\ status_label' = "Error: " \o ListenErrorMsg(e)
               /\ Presentation(status_label') = "Idle"
               /\ circle' = set_state("idle")
               /\ ~Started("process")
               /\ conversation_history' = conversation_history
       /\ Restrict(threads', "listen") # Restrict(threads, "listen")
            => conversation_history' = conversation_history]_vars

\* a second cycle whose listening timed out: the history of the first cycle
\* is still there and the label shows the error
C8_Witness ==
    \E t \in ListenThreads :
        /\ t.pc = "finally" /\ t.exc = "WaitTimeoutError"
        /\ t.cbargs = <<<<None, "Listening timeout">>>>
        /\ status_label = "Error: Listening timeout"
        /\ Len(conversation_history) = 3
        /\ Outstanding(threads, "process") = 0

\* C9: a failed completion request returns the presentation to Idle with an
\* error and starts no speak worker; the worker's only change to the history
\* is the one User message it appended before the request, and an Assistant
\* message is appended only by a request that succeeded.
C9_CompletionFailureToIdle ==
    [][\A t \in ProcessThreads : Stepped(t) =>
          /\ t.pc = "append"
                => conversation_history' =
                       Append(conversation_history, Message("user", t.arg))
          /\ (t.pc = "request" /\ \E u \in BagToSet(threads') :
                                     Became(u) /\ u.exc = "APIError")
                => conversation_history' = conversation_history /\ ~Started("speak")
          /\ (t.pc = "except" /\ t.exc = "APIError")
                => /\ conversation_history' = conversation_history
                   /\ ~Started("speak")
                   /\ t.callback = "on_ai_response"
                        => /\ Presentation(status_label') = "Idle"
                           /\ ErrorShown(status_label')
                           /\ circle' = set_state("idle")
          /\ (Len(conversation_history') > 0
                /\ conversation_history'[Len(conversation_history')].role = "assistant"
                /\ conversation_history' # conversation_history)
                => t.pc = "request" /\ \E u \in BagToSet(threads') :
                                          Became(u) /\ u.response # None]_vars

\* the completion request of the first cycle failed: Idle, the error shown,
\* the history is the System message and the User message
C9_Witness ==
    \E t \in ProcessThreads :
        /\ t.pc = "finally" /\ t.exc = "APIError"
        /\ t.cbargs = <<<<None, "AI Error: APIError">>>>
        /\ status_label = "AI Error: AI Error: APIError"
        /\ circle = set_state("idle")
        /\ conversation_history =
               <<Message("system", SystemPrompt), Message("user", "hello")>>
        /\ SpeakThreads = {}

\* C10: whenever no request is in flight, the history holds at most 21
\* entries.
C10_HistoryCapped ==
    (\A t \in ProcessThreads : t.pc = "done")
        => Len(conversation_history) <= HistoryLimit


\* C11: after n successful exchanges run one at a time from [System], the
\* history is the System message followed by the last min(n, cap) exchanges
\* in their order; up to cap exchanges nothing is evicted.
C11_MostRecentPairs ==
    AllReturned =>
        LET n == BagCardinality(threads) IN
        conversation_history =
            <<Message("system", SystemPrompt)>>
                \o Exchanges(IF n > Cap THEN n - Cap + 1 ELSE 1, n)

\* cap + 2 exchanges have run: the first two were evicted
C11_Witness ==
    /\ AllReturned
    /\ BagCardinality(threads) = Cap + 2
    /\ Len(conversation_history) = HistoryLimit
    /\ conversation_history[2] = Message("user", Utterance(3))


\* C12: after every trim the entry right after the System message has role
\* user, and every assistant entry of the history directly follows the user
\* entry it answers.
C12_TrimEvictsWholePairs ==
    [][TrimStep =>
          /\ conversation_history'[2].role = "user"
          /\ \A i \in 1..Len(conversation_history') :
                conversation_history'[i].role = "assistant"
                    => AnswersPrevious(conversation_history', i)]_vars


\* C13: in every reachable state the history is not empty and its first
\* entry has role system.
C13_SystemFirst ==
    /\ Len(conversation_history) >= 1
    /\ conversation_history[1].role = "system"

\* a trim has evicted the first exchange and the System message is still at
\* index 1
C13_Witness ==
    /\ AllReturned
    /\ Len(conversation_history) = HistoryLimit
    /\ conversation_history[1].role = "system"
    /\ \A i \in 2..Len(conversation_history) :
          conversation_history[i].content # Utterance(1)


\* C14: right after clear_conversation the history is exactly the entry that
\* was at index 0 before the call, and clearing that history again gives the
\* same history.
C14_ClearRoundTrip ==
    [][ClearStep =>
          /\ conversation_history' = <<conversation_history[1]>>
          /\ ai_clear_conversation(conversation_history') = conversation_history']_vars

\* Clear was pressed after a worker had appended its User message: the
\* worker is waiting for the reply and the history is the System message
C14_Witness ==
    /\ conversation_history = <<Message("system", SystemPrompt)>>
    /\ \E t \in ProcessThreads : t.pc = "request"


\* C15: a completion request issued before clear_conversation and finishing
\* after it changes neither the history nor the label and the circle.
C15_StaleResultDiscarded ==
    [][\A t \in ProcessThreads :
          (Stale(t) /\ Stepped(t))
              => UNCHANGED <<conversation_history, uiVars>>]_vars


\* C16: stop_speaking called while a speak worker is playing leaves the
\* window Idle: the label shows no Listening, Processing or Speaking text
\* and the circle is idle.
C16_StopMovesToIdle ==
    [][StopWhileSpeaking =>
          /\ Presentation(status_label') = "Idle"
          /\ circle' = set_state("idle")]_vars


\* C17: no step taken by a get_response worker thread changes the
\* conversation history.
C17_HistoryOnlyOnUIThread ==
    [][(\E t \in ProcessThreads : Stepped(t))
          => conversation_history' = conversation_history]_vars


\* C18: no step taken by a worker thread changes the status label or the
\* circle: the handlers of worker results run on the UI thread.
C18_HandlersOnUIThread ==
    [][(\E t \in Threads : Stepped(t)) => UNCHANGED uiVars]_vars


\* C19: what a completion request sends is the message list as it was when
\* the request was issued.
C19_RequestSendsCopy ==
    \A r \in BagToSet(requests) : r.sent # <<>> => r.sent = r.issued


\* C20: set_voice_mode with a name that is not in VOICE_MODES leaves
\* current_voice_mode and the TTS configuration as they are; a step that
\* changes the voice mode, or the TTS configuration outside a worker, sets a
\* mode of VOICE_MODES and its configuration and changes neither the busy
\* flags, the history, the label nor the circle.
C20_VoiceModeOnly ==
    [][/\ \A mode \in VoiceNames \ DOMAIN VOICE_MODES :
             set_voice_mode(mode) => UNCHANGED <<current_voice_mode, tts>>
       /\ (current_voice_mode' # current_voice_mode
              \/ (tts' # tts /\ threads' = threads))
          => /\ current_voice_mode' \in DOMAIN VOICE_MODES
             /\ tts' = _configure_tts_voice(current_voice_mode')
             /\ UNCHANGED <<is_listening, is_speaking, is_processing,
                            conversation_history, uiVars>>]_vars

\* the Alien voice was set, and a request is in flight: the window shows
\* Processing and the history holds the User message
C20_Witness ==
    /\ current_voice_mode = "Alien"
    /\ tts = _configure_tts_voice("Alien")
    /\ is_processing
    /\ Presentation(status_label) = "Processing"
    /\ Len(conversation_history) = 2


\* C21: in the first cycle, started with history [System]: the step that
\* enters Processing for the text t leaves the history [System, User(t)], and
\* the step that enters Speaking for the reply r leaves the history
\* [System, User(t), Assistant(r)].
C21_HistoryAtTransitions ==
    [][/\ (FirstCycle /\ Enters("Processing")
              /\ conversation_history = <<Message("system", SystemPrompt)>>)
          => \E u \in BagToSet(threads') :
                /\ u.kind = "process"
                /\ conversation_history' =
                       <<Message("system", SystemPrompt), Message("user", u.arg)>>
       /\ (FirstCycle /\ Enters("Speaking"))
          => \E u \in BagToSet(threads') :
                /\ u.kind = "process" /\ u.response # None
                /\ conversation_history' =
                       <<Message("system", SystemPrompt),
                         Message("user", u.arg),
                         Message("assistant", u.response)>>]_vars


\* C22: whenever the window presents Idle, a click on the circle is not
\* dropped: on_circle_clicked starts a listen_for_speech call.
C22_IdleClickAccepted == IdlePresented => ~ClickDropped


\* C23: a step in which a worker meets or handles an error starts no listen,
\* completion or speak call, and at every moment there are at most as many
\* completion calls as accepted clicks, as many speak calls of the cycles as
\* completion calls, and as many requests in flight as workers waiting for
\* one.
C23_ErrorsTerminal ==
    [][/\ ErrorStep => ~(Started("listen") \/ Started("process") \/ Started("speak"))
       /\ Calls(threads', "process") <= Calls(threads', "listen")
       /\ Calls(threads', "speak") <= Calls(threads', "process")
       /\ BagCardinality(requests') <=
              BagCardinality([t \in {u \in BagToSet(threads') :
                                        u.kind = "process" /\ u.pc = "request"}
                                 |-> threads'[t]])]_vars

\* a cycle whose playback failed: one call of each kind was made, and the
\* speak worker is leaving with its exception
C23_Witness ==
    /\ \E t \in SpeakThreads : t.pc = "finally" /\ t.exc # None
    /\ Calls(threads, "listen") = 1
    /\ Calls(threads, "process") = 1
    /\ Calls(threads, "speak") = 1


\* C24: a completion call of a cycle is started only by the step in which a
\* listen worker hands recognized text to its callback, for that text; a
\* speak call of a cycle only by the step in which a process worker hands a
\* reply to its callback, for that reply.
C24_StepsOrdered ==
    [][/\ Started("process")
          => \E t \in ListenThreads, u \in BagToSet(threads') :
                /\ t.pc = "listening" /\ Stepped(t)
                /\ Became(u) /\ u.kind = "listen"
                /\ Truthy(u.text) /\ u.cbargs = <<<<u.text, None>>>>
                /\ Became(NewThread("process", u.text, "on_ai_response"))
       /\ Started("speak")
          => \E t \in ProcessThreads, u \in BagToSet(threads') :
                /\ t.pc = "callback" /\ Stepped(t)
                /\ Became(u) /\ u.kind = "process"
                /\ Truthy(t.response) /\ u.cbargs = <<<<t.response, None>>>>
                /\ Became(NewThread("speak", t.response, "on_speech_complete"))]_vars

\* the speak call of a cycle has been made for the reply "hi there" to
\* "hello", after both callbacks
C24_Witness ==
    /\ NewThread("speak", "hi there", "on_speech_complete") \in SpeakThreads
    /\ \E p \in ProcessThreads :
          /\ p.arg = "hello" /\ p.response = "hi there"
          /\ p.cbargs = <<<<"hi there", None>>>>
    /\ \A l \in ListenThreads : l.pc \in {"finally", "done"}


\* C25: no step changes a message that is in the history: the first entry
\* stays what it was, and every entry of the history after the step, except
\* one appended by the step, is an entry the history held before.
C25_MessagesImmutable ==
    [][/\ conversation_history'[1] = conversation_history[1]
       /\ \A i \in 1..Len(conversation_history') :
             \/ conversation_history'[i] \in Entries(conversation_history)
             \/ i = Len(conversation_history')]_vars


\* C26: the UI thread never waits for an external service: it is in its
\* event loop whenever a handler is not running, and no handler stops inside
\* a call to a service.
C26_UINeverWaits == ui_thread = "event_loop"

\* the Clear button of a Tk demo is pressed
TkClearStep ==
    /\ program \in TkDemos
    /\ conversation # <<>> /\ conversation' = <<>>

\* C27: in the Tkinter demos, the Clear button leaves the history of the
\* real assistant empty, so that the next RealAI.get_response sends the
\* system prompt and the new user message only.
C27_ClearEmptiesHistory == [][TkClearStep => real_history' = <<>>]_vars

\* C28: every request of a demo real assistant starts with the system
\* prompt, has at most HistorySlice + 1 messages (11 in PySide, 9 in the
\* Tk demos), and ends with the user input of the call that sends it.
C28_ContextBounded ==
    \A w \in BagToSet(workers) :
        w.sent # <<>> =>
            /\ Len(w.sent) <= HistorySlice + 1
            /\ w.sent[1] = Message("system", DemoSystemPrompt)
            /\ w.sent[Len(w.sent)] = Message("user", w.user_input)

\* the strings RealAI.get_response returns for a request that failed
AIErrors == {"AI Error: " \o e : e \in DemoFailures}

\* the request of worker w fails in this step, which leaves the worker as v
RequestFails(w, v) ==
    /\ w.kind = "RealAI" /\ w.pc = "await" /\ v.pc # "await"
    /\ workers' = Replaced(w, v)
    /\ v.user_input = w.user_input /\ v.sent = w.sent
    /\ v.response # DemoReply(w.user_input)

\* worker w executes the first statement of get_response in this step
RequestBegins(w) ==
    /\ w.kind = "RealAI" /\ w.pc = "start"
    /\ workers' = Replaced(w, [w EXCEPT !.pc = "create"])

\* the UI thread handles the error string worker w has returned
HandlesError(w) ==
    /\ w.pc = "posted" /\ w.response \in AIErrors
    /\ workers' = Removed(w)

\* what a step of a Tk demo does with a failed request: get_response returns
\* an error string and leaves the history alone, the call has added its user
\* message, and the UI thread handles the string like a reply
ErrorsAreReplies ==
    /\ \A w \in BagToSet(workers), v \in BagToSet(workers') :
          RequestFails(w, v) =>
              /\ v.pc = "posted"
              /\ v.response \in AIErrors
              /\ real_history' = real_history
    /\ \A w \in BagToSet(workers) :
          RequestBegins(w) =>
              real_history' =
                  Append(real_history, Message("user", w.user_input))
    /\ \A w \in BagToSet(workers) :
          HandlesError(w) =>
              /\ conversation' = Append(conversation, <<"ARIA", w.response>>)
              /\ spoken' = safe_speak(w.response)

\* C29: in the Tk demos RealAI.get_response never raises: a request that
\* fails makes it return a string starting with "AI Error:", the call has
\* added its user message to the history and adds no assistant entry, and
\* handle_response shows that string as a line of ARIA and gives it to the
\* voice engine like any other reply.
C29_ErrorsAreReplies == [][(program \in TkDemos) => ErrorsAreReplies]_vars

\* a Tk demo has shown an error string as the reply of ARIA
C29_Witness ==
    /\ program \in TkDemos
    /\ conversation # <<>>
    /\ conversation[Len(conversation)] \in {<<"ARIA", e>> : e \in AIErrors}
    /\ real_history # <<>>
    /\ real_history[Len(real_history)].role = "user"

\* the demo assistant answers in this step
Delivered == index' = index + 1

\* the Clear button is pressed while the demo assistant is in use
DemoClearStep ==
    /\ program \in TkDemos \/ ~real_ai
    /\ conversation # <<>> /\ conversation' = <<>>

\* the n-th answer since construction or the last clear is
\* responses[n mod len(responses)], the index moves only when the assistant
\* answers or is cleared, and a clear restarts it at 0
RoundRobin ==
    /\ Delivered =>
          /\ conversation' # <<>>
          /\ conversation'[Len(conversation')] =
                 <<"ARIA", responses[(index % Len(responses)) + 1]>>
    /\ (index' # index /\ ~Delivered) => (index' = 0 /\ DemoClearStep)
    /\ DemoClearStep => index' = 0

\* C30: the demo assistants answer round-robin: the n-th get_response
\* (n from 0) after construction or after clear_conversation answers
\* responses[n mod len(responses)], and clear_conversation restarts the
\* sequence at the first response.
C30_RoundRobin == [][RoundRobin]_vars

\* the assistant has gone through all its responses and answered with the
\* first one again
C30_Witness ==
    /\ index = Len(responses) + 1
    /\ conversation # <<>>
    /\ conversation[Len(conversation)] = <<"ARIA", responses[1]>>

\* every listen and speak worker has returned
EngineWorkersEnded ==
    \A t \in Threads : t.kind \in {"listen", "speak"} => t.pc = "done"

\* a worker of the kind returns in this step
WorkerEnds(kind) ==
    \E t \in Threads :
        /\ t.kind = kind /\ t.pc # "done"
        /\ Stepped(t) /\ Became(Ended(t))

\* the step in which a worker returns leaves its busy flag False
FlagsReset ==
    /\ WorkerEnds("listen") => ~is_listening'
    /\ WorkerEnds("speak") => ~is_speaking'

\* C31: the busy flags never block the circle forever: a listen or speak
\* worker that returns, normally or by an exception, leaves its flag False;
\* when all of them have returned the check of on_circle_clicked passes; and
\* whenever that check fails, it passes again later.
C31_FlagsReleased ==
    /\ [][FlagsReset]_vars
    /\ [](EngineWorkersEnded => ~ClickDropped)
    /\ (ClickDropped ~> ~ClickDropped)

\* a listen worker and a speak worker have run and returned, the speak
\* worker by an exception, and the circle accepts a click
C31_Witness ==
    /\ \E t \in ListenThreads : t.pc = "done"
    /\ \E t \in SpeakThreads : t.pc = "done"
    /\ EngineWorkersEnded
    /\ ~ClickDropped

\* the speak workers inside their try block, which configures the TTS
\* engine and plays the text, and their number
Driving == {t \in SpeakThreads : t.pc = "speaking"}

\* a speak worker has set is_speaking and has not passed its finally clause
SpeakRunning == \E t \in SpeakThreads : t.pc \in {"speaking", "finally"}

\* C32: at most one speak worker drives the TTS engine at any time, however
\* on_ai_response and the Test TTS button interleave, and is_speaking is True
\* as long as a speak worker is running.
C32_OneSpeaker ==
    /\ CountOf(Driving) <= 1
    /\ SpeakRunning => is_speaking

\* a get_response worker has called create() and the call has not returned
RequestInFlight == \E t \in ProcessThreads : t.pc = "request"

\* a get_response worker has set is_processing and has not passed its
\* finally clause
ProcessRunning == \E t \in ProcessThreads : t.pc \notin {"start", "done"}

\* C33: is_processing is True whenever a get_response worker has a
\* completion request in flight, and False when no worker is at work, also
\* when get_response calls overlap.
C33_ProcessingFlag ==
    /\ RequestInFlight => is_processing
    /\ ~ProcessRunning => ~is_processing

\* the flags set_state leaves for a name that is no active state
IdleFlags ==
    [is_listening |-> FALSE, is_processing |-> FALSE, is_active |-> FALSE]

\* C34: after any sequence of set_state calls with any names, is_listening
\* and is_processing are not both True, is_active is their disjunction, and
\* a name other than "listening" and "processing" gives the idle flags.
C34_CircleFlags ==
    /\ ~(circle.is_listening /\ circle.is_processing)
    /\ circle.is_active = (circle.is_listening \/ circle.is_processing)
    /\ \A state \in StateNames \ {"listening", "processing"} :
          set_state(state) = IdleFlags
    /\ circle \in {set_state(state) : state \in StateNames}

\* the circle has been set to processing while it rotates
C34_Witness ==
    /\ circle.is_processing /\ circle.is_active /\ ~circle.is_listening
    /\ angle > 0

\* a tick of the animation timer
Tick == angle' # angle

\* C35: after every update_animation tick 0 <= angle < 360: a tick adds
\* ROTATION_SPEED (1) and puts the angle back to 0 when it reaches 360, so
\* the rotation has a period of 360 ticks.
C35_AngleInRange ==
    /\ [](angle \in 0 .. 359)
    /\ [][Tick => angle' = (angle + 1) % 360]_vars

\* the rotation is one tick short of a full turn
C35_Witness == angle = 359

====
